---- MODULE Spec2Model ----
(***************************************************************************)
(* State-machine model of OtomotoScraper/scraper.py: the Listings table,   *)
(* get_auction_number / insert_into_db, get_page_html's retry loop, the    *)
(* pagination estimator, the page-level extraction filter and run_scraper. *)
(***************************************************************************)
EXTENDS Integers, Sequences, FiniteSets, TLC

\* ------------------------------------------------------------------------
\* Program constants
\* ------------------------------------------------------------------------
EXPECTED_PER_PAGE == 32
MAX_PAGES_TO_CHECK == 30
\* the literal returned by get_auction_number when the store cannot be read
DEFAULT_AUCTION_NUMBER == 1000000
\* get_page_html: max_retries and the argument of time.sleep
max_retries == 3
RETRY_SLEEP == 2
\* the fallback pair of get_total_auction_count_and_pages
DEFAULT_TOTAL_AUCTIONS == 320
DEFAULT_TOTAL_PAGES == 10

\* ------------------------------------------------------------------------
\* Bounds of the model
\* ------------------------------------------------------------------------
\* rows the Listings table can hold (an INSERT into a full table fails)
MaxRows == 2
\* records one run collects in all_cars
MaxCars == 2
\* calendar days
MaxDay == 2

\* ------------------------------------------------------------------------
\* URLs.  A raw href is relative ("/osobowe/oferta/...") or absolute; its
\* path either starts with the product prefix, or only contains "ds-7" /
\* "ds7", or is another product.  ad identifies the advertisement.
\* ------------------------------------------------------------------------
Ads == {"a", "b", "c"}
Kinds == {"prefix", "ds7", "other"}

Href(rel, kind, ad) == [relative |-> rel, kind |-> kind, ad |-> ad]

\* basic_url_cleanup: a relative URL gets the site origin in front
basic_url_cleanup(url) ==
    IF url.relative THEN [url EXCEPT !.relative = FALSE] ELSE url

\* cleaned_link.startswith(REQUIRED_PREFIX)
StartsWithRequiredPrefix(url) == ~url.relative /\ url.kind = "prefix"

\* "ds-7" in cleaned_link or "ds7" in cleaned_link
ContainsDs7(url) == url.kind \in {"prefix", "ds7"}

\* the URL filter of extract_cars_from_html
AcceptsLink(url) == StartsWithRequiredPrefix(url) \/ ContainsDs7(url)

\* compute_auction_key: the MD5 digest of the URL text (collision-free on
\* the URLs of the model); a digest is not a URL
compute_auction_key(url) ==
    <<"md5", IF url.relative THEN "/" ELSE "https://www.otomoto.pl/", url.kind, url.ad>>

\* ------------------------------------------------------------------------
\* Pages.  The text of a response is "" (EmptyText), a page the HTML parser
\* rejects (Malformed), or a page with its pagination signals and fragments.
\* ------------------------------------------------------------------------
NoCount == -1
BadDigit == -1
NoLink == [relative |-> FALSE, kind |-> "none", ad |-> "none"]

EmptyText == [type |-> "empty"]
Malformed == [type |-> "malformed"]

Page(h1, text, ul, li, container, frags) ==
    [type |-> "page", h1 |-> h1, text |-> text, ul |-> ul, li |-> li,
     container |-> container, fragments |-> frags]

Max(S) == CHOOSE x \in S : \A y \in S : y <= x
Min2(a, b) == IF a <= b THEN a ELSE b
Range(s) == {s[i] : i \in DOMAIN s}
CeilDiv(a, b) == (a + b - 1) \div b

\* get_total_auction_count_and_pages
PagesFromCount(total_pages, total_auctions) ==
    IF total_pages = 1 /\ total_auctions > EXPECTED_PER_PAGE
    THEN CeilDiv(total_auctions, EXPECTED_PER_PAGE)
    ELSE total_pages

get_total_auction_count_and_pages(h) ==
    IF h.type # "page" \/ (h.ul /\ BadDigit \in Range(h.li))
    THEN <<DEFAULT_TOTAL_AUCTIONS, DEFAULT_TOTAL_PAGES>>
    ELSE
    LET ta0 == IF h.h1 # NoCount THEN h.h1 ELSE 0
        ta1 == IF ta0 = 0 /\ h.text # NoCount THEN h.text ELSE ta0
        tp0 == IF h.ul /\ h.li # <<>> THEN Max(Range(h.li)) ELSE 1
        tp1 == PagesFromCount(tp0, ta1)
        ta2 == IF ta1 = 0 /\ tp1 > 1 THEN tp1 * EXPECTED_PER_PAGE ELSE ta1
        ta3 == IF ta2 = 0 THEN DEFAULT_TOTAL_AUCTIONS ELSE ta2
        tp2 == PagesFromCount(tp1, ta3)
    IN  <<ta3, tp2>>

\* extract_cars_from_html: the records of a page, in document order
RECURSIVE ExtractFragments(_, _)
ExtractFragments(frags, day) ==
    IF frags = <<>> THEN <<>>
    ELSE LET f == Head(frags)
             rest == ExtractFragments(Tail(frags), day)
         IN  IF f = NoLink THEN rest
             ELSE LET cleaned_link == basic_url_cleanup(f)
                  IN  IF AcceptsLink(cleaned_link)
                      THEN <<[link |-> cleaned_link, scrape_date |-> day,
                              auction_id |-> 0]>> \o rest
                      ELSE rest

extract_cars_from_html(h, day) ==
    IF ~h.container THEN <<>> ELSE ExtractFragments(h.fragments, day)

\* ------------------------------------------------------------------------
\* The Listings table and the two database functions
\* ------------------------------------------------------------------------
\* SELECT TOP 1 AuctionNumber ... WHERE AuctionKey = %s ORDER BY CreatedDate DESC
RowsWithKey(rows, key) == {i \in DOMAIN rows : rows[i].AuctionKey = key}
LatestNumber(rows, key) == rows[Max(RowsWithKey(rows, key))].AuctionNumber

\* SELECT ISNULL(MAX(AuctionNumber), 0) FROM Listings
MaxAuctionNumber(rows) ==
    IF rows = <<>> THEN 0 ELSE Max({rows[i].AuctionNumber : i \in DOMAIN rows})

\* (the + 1 forgotten)
NewAuctionNumber_Mut(max_val) == max_val

\* auction_number = int(max_val) + 1
NewAuctionNumber(max_val) == max_val + 1

\* get_auction_number: reachable is FALSE when the connection cannot be
\* opened or a query raises
get_auction_number(rows, auction_key, reachable) ==
    IF ~reachable
    THEN [number |-> DEFAULT_AUCTION_NUMBER, rule |-> "default", key |-> auction_key]
    ELSE IF RowsWithKey(rows, auction_key) # {}
    THEN [number |-> LatestNumber(rows, auction_key), rule |-> "existing",
          key |-> auction_key]
    ELSE [number |-> NewAuctionNumber(MaxAuctionNumber(rows)), rule |-> "new",
          key |-> auction_key]

\* the row INSERT INTO Listings adds for a car
ListingRow(car, auction_number) ==
    [AuctionKey |-> compute_auction_key(car.link), AuctionNumber |-> auction_number,
     ScrapeDate |-> car.scrape_date]

NoAssign == [number |-> 0, rule |-> "none", key |-> <<>>]
NotCalled == [kind |-> "not called", id |-> 0]
None == [kind |-> "None", id |-> 0]
Raised == [kind |-> "raised", id |-> 0]
ListingId(n) == [kind |-> "id", id |-> n]

\* insert_into_db.  connOK: get_sql_connection returned a connection;
\* lookupOK: get_auction_number reached the store; execOK: INSERT, fetchone
\* and commit went through; closeOK: cursor.close() in the finally block did
\* not raise.  Gives the table afterwards, the result and the number used.
insert_into_db(rows, car, connOK, lookupOK, execOK, closeOK) ==
    IF ~connOK
    THEN [rows |-> rows, result |-> None, assign |-> NoAssign]
    ELSE LET a == get_auction_number(rows, compute_auction_key(car.link), lookupOK)
         IN  IF execOK
             THEN [rows |-> Append(rows, ListingRow(car, a.number)),
                   result |-> IF closeOK THEN ListingId(Len(rows) + 1) ELSE Raised,
                   assign |-> a]
             ELSE [rows |-> rows,
                   result |-> IF closeOK THEN None ELSE Raised,
                   assign |-> a]

\* ------------------------------------------------------------------------
\* State
\* ------------------------------------------------------------------------
VARIABLES
    Listings,           \* the rows of the table, oldest first (ListingID = index)
    today,              \* the calendar day of datetime.now()
    pc,                 \* where run_scraper is
    html,               \* what get_page_html returned
    attempt,            \* get_page_html: the loop variable
    requests,           \* get_page_html: requests.get calls made for this URL
    sleeps,             \* get_page_html: the time.sleep arguments, in order
    served,             \* get_page_html: the texts of the responses that succeeded
    total_pages,        \* run_scraper locals
    pages_to_check,
    current_page,
    cars_on_page,       \* the records of the page not yet processed
    all_cars,
    auction_counter,
    processed_counter,
    db_id,              \* the outcome of the last insert_into_db call
    lastAssign,         \* what the last get_auction_number call returned
    fetchLog,           \* the page numbers get_page_html was called for, in order
    extracted,          \* the records extract_cars_from_html returned in this run
    insertLog,          \* the links insert_into_db was called with in this run
    ending,             \* how the run left its page loop
    reported,           \* the end-of-run report was written
    summary,            \* the tallies the end-of-run report logged
    main,               \* where the trigger entry point main is
    call,               \* a call of one of the pure functions, with its result
    proc                \* overlapping runs, each inside insert_into_db

storeVars == <<Listings, db_id, lastAssign>>
fetchVars == <<html, attempt, requests, sleeps, served>>
runVars == <<total_pages, pages_to_check, current_page, cars_on_page, all_cars,
             auction_counter, processed_counter, extracted, insertLog>>
endVars == <<ending, reported, summary, main>>
auxVars == <<call, proc>>
vars == <<Listings, today, pc, html, attempt, requests, sleeps, served, total_pages,
          pages_to_check, current_page, cars_on_page, all_cars, auction_counter,
          processed_counter, db_id, lastAssign, fetchLog, extracted, insertLog,
          ending, reported, summary, main, call, proc>>

\* ------------------------------------------------------------------------
\* The texts a response can carry, and the outcomes of the database calls
\* ------------------------------------------------------------------------
RelA == Href(TRUE, "prefix", "a")
AbsA == Href(FALSE, "prefix", "a")
AbsB == Href(FALSE, "prefix", "b")
Ds7C == Href(FALSE, "ds7", "c")
Other == Href(FALSE, "other", "a")

\* the listing fragments of a page, by the href each resolves to
Bodies ==
    {<<>>, <<NoLink>>, <<Other>>, <<RelA>>, <<AbsB>>, <<Ds7C>>,
     <<AbsA, RelA>>, <<AbsA, AbsB>>, <<AbsB, Ds7C>>, <<Other, AbsB>>,
     <<AbsA, Other, AbsB>>}

\* pagination signals: a counter in a text node (1 page); a counter in the
\* h1 (2 pages); a widget showing only 0; a widget showing 1 and 2
FewPagesSignals ==
    {<<0, 20, FALSE, <<>>>>,
     <<40, NoCount, FALSE, <<>>>>,
     <<NoCount, NoCount, TRUE, <<0>>>>,
     <<NoCount, NoCount, TRUE, <<1, 2>>>>}

\* no signal at all (the fallback, 10 pages); a widget showing up to 31; a
\* widget with a digit int() rejects (the except clause, 10 pages); a widget
\* showing only 0
ManyPagesSignals ==
    {<<NoCount, NoCount, FALSE, <<>>>>,
     <<NoCount, NoCount, TRUE, <<1, 2, 31>>>>,
     <<NoCount, NoCount, TRUE, <<1, BadDigit>>>>,
     <<NoCount, NoCount, TRUE, <<0>>>>}

PagesOf(signals, bodies) ==
    {Page(s[1], s[2], s[3], s[4], TRUE, f) : s \in signals, f \in bodies}
    \cup {Page(s[1], s[2], s[3], s[4], FALSE, <<AbsA>>) : s \in signals}

Texts == {EmptyText, Malformed} \cup PagesOf(FewPagesSignals, Bodies)

PagingTexts ==
    {EmptyText, Malformed} \cup PagesOf(ManyPagesSignals, {<<>>, <<RelA>>, <<Other>>})

\* <<connOK, lookupOK, execOK, closeOK>>
DbOutcomes == BOOLEAN \X BOOLEAN \X BOOLEAN \X BOOLEAN
PagingDbOutcomes ==
    {<<TRUE, TRUE, TRUE, TRUE>>, <<FALSE, FALSE, FALSE, TRUE>>,
     <<TRUE, TRUE, FALSE, TRUE>>, <<TRUE, TRUE, TRUE, FALSE>>}

CarsIn(text) ==
    IF text.type = "page" THEN extract_cars_from_html(text, 0) ELSE <<>>

\* html once the caller has used it: it is not read again before the next
\* get_page_html call assigns it
Used == [type |-> "used"]

\* no function is being called, no overlapping run exists
NoCall == [fn |-> "none"]
NoProcs == <<>>

\* nothing logged yet
NoSummary == [logged |-> FALSE]

\* ------------------------------------------------------------------------
\* Init: no run has started, the table is empty
\* ------------------------------------------------------------------------
RunInit ==
    /\ Listings = <<>>
    /\ today = 1
    /\ pc = "idle"
    /\ html = Used
    /\ attempt = 0
    /\ requests = 0
    /\ sleeps = <<>>
    /\ served = <<>>
    /\ total_pages = 1
    /\ pages_to_check = 0
    /\ current_page = 0
    /\ cars_on_page = <<>>
    /\ all_cars = <<>>
    /\ auction_counter = 0
    /\ processed_counter = 0
    /\ db_id = NotCalled
    /\ lastAssign = NoAssign
    /\ fetchLog = <<>>
    /\ extracted = <<>>
    /\ insertLog = <<>>
    /\ ending = "none"
    /\ reported = FALSE
    /\ summary = NoSummary
    /\ main = "idle"

Init ==
    /\ RunInit
    /\ call = NoCall
    /\ proc = NoProcs

\* the calendar day changes (between two runs: a run does not straddle midnight)
NextDay ==
    /\ pc \in {"idle", "done"}
    /\ today < MaxDay
    /\ today' = today + 1
    /\ UNCHANGED <<pc, storeVars, fetchVars, runVars, endVars, fetchLog, auxVars>>

\* ------------------------------------------------------------------------
\* get_page_html
\* ------------------------------------------------------------------------
\* entering get_page_html for page p
CallGetPageHtml(p) ==
    /\ pc' = "get_page_html"
    /\ attempt' = 0
    /\ requests' = 0
    /\ sleeps' = <<>>
    /\ served' = <<>>
    /\ html' = Used
    /\ fetchLog' = Append(fetchLog, p)

\* (one attempt too many)
InRetryRange_Mut(a) == a <= max_retries

\* for attempt in range(max_retries)
InRetryRange(a) == a < max_retries

\* if attempt < max_retries - 1: time.sleep(2)
SleepsAfterFailure(a, log) ==
    IF a < max_retries - 1 THEN Append(log, RETRY_SLEEP) ELSE log

\* where get_page_html returns to
ReturnPoint == IF current_page = 1 THEN "first_page" ELSE "page"

\* one iteration of the loop succeeds: return response.text
AttemptSucceeds(texts) ==
    /\ pc = "get_page_html"
    /\ InRetryRange(attempt)
    /\ \E text \in texts :
        /\ Len(all_cars) + Len(CarsIn(text)) <= MaxCars
        /\ html' = text
        /\ served' = Append(served, text)
    /\ requests' = requests + 1
    /\ pc' = ReturnPoint
    /\ UNCHANGED <<attempt, sleeps, today, storeVars, runVars, endVars, fetchLog,
                   auxVars>>

\* one iteration of the loop raises: log, sleep unless it was the last one;
\* when the range is exhausted the function returns ""
AttemptFails ==
    /\ pc = "get_page_html"
    /\ InRetryRange(attempt)
    /\ requests' = requests + 1
    /\ sleeps' = SleepsAfterFailure(attempt, sleeps)
    /\ attempt' = attempt + 1
    /\ IF InRetryRange(attempt + 1)
       THEN UNCHANGED <<pc, html>>
       ELSE pc' = ReturnPoint /\ html' = EmptyText
    /\ UNCHANGED <<served, today, storeVars, runVars, endVars, fetchLog, auxVars>>

\* the caller has taken the return value: the locals of the call are gone
ForgetFetch ==
    /\ html' = Used
    /\ attempt' = 0
    /\ requests' = 0
    /\ sleeps' = <<>>
    /\ served' = <<>>

\* ------------------------------------------------------------------------
\* run_scraper
\* ------------------------------------------------------------------------
\* run_scraper is entered: locals initialised, get_page_html(BASE_URL) called
StartRun ==
    /\ pc \in {"idle", "done"}
    /\ all_cars' = <<>>
    /\ auction_counter' = 0
    /\ processed_counter' = 0
    /\ current_page' = 1
    /\ total_pages' = 1
    /\ pages_to_check' = 0
    /\ cars_on_page' = <<>>
    /\ extracted' = <<>>
    /\ insertLog' = <<>>
    /\ ending' = "none"
    /\ reported' = FALSE
    /\ summary' = NoSummary
    /\ main' = "running"
    /\ db_id' = NotCalled
    /\ lastAssign' = NoAssign
    /\ fetchLog' = <<>> /\ pc' = "call_first"
    /\ UNCHANGED <<Listings, today, fetchVars, auxVars>>

\* html = get_page_html(BASE_URL)
FetchFirstPage ==
    /\ pc = "call_first"
    /\ CallGetPageHtml(1)
    /\ UNCHANGED <<runVars, endVars, today, storeVars, auxVars>>

\* main: run_scraper() returned, 'Car scraper completed successfully' is logged
ReturnedTo == "completed"

\* (falling through to the report instead of returning)
FirstFetchFailedTo_Mut == "report"
\* if not html: return   (first page)
FirstFetchFailedTo == "done"
\* (break instead of continue)
FetchFailedTo_Mut == "report"
\* if not html: continue   (later pages)
FetchFailedTo == "loop"
\* if not cars_on_page: break   (later pages)
NoCarsTo == "report"
\* an exception reaches the except clause of run_scraper
ExceptionTo == "report"

\* the first page: estimate the pagination, extract the records
HandleFirstPage ==
    /\ pc = "first_page"
    /\ IF html = EmptyText
       THEN /\ pc' = FirstFetchFailedTo
            /\ ending' = "return"
            /\ main' = IF pc' = "done" THEN ReturnedTo ELSE main
            /\ UNCHANGED <<total_pages, cars_on_page, extracted>>
       ELSE /\ total_pages' = get_total_auction_count_and_pages(html)[2]
            /\ UNCHANGED main
            /\ IF html = Malformed
               THEN /\ pc' = ExceptionTo
                    /\ ending' = "exception"
                    /\ UNCHANGED <<cars_on_page, extracted>>
               ELSE /\ cars_on_page' = extract_cars_from_html(html, today)
                    /\ extracted' = extracted \o cars_on_page'
                    /\ pc' = "listings"
                    /\ UNCHANGED ending
    /\ ForgetFetch
    /\ UNCHANGED <<pages_to_check, current_page, all_cars, auction_counter,
                   processed_counter, insertLog, reported, summary, today, storeVars,
                   fetchLog, auxVars>>

\* (the try around insert_into_db missing: an exception leaves the loops)
AfterInsert_Mut(result) == IF result.kind = "raised" THEN "report" ELSE "listings"

\* what follows an insert_into_db call, whatever it returned or raised
AfterInsert(result) == "listings"

\* (the identifier built before the counter is incremented)
AuctionIdPrefix_Mut(counter) == counter - 1

\* car.auction_id = f"{auction_counter}_{mileage_digits}_{car.price_pln}", after
\* auction_counter += 1: the positional prefix of the identifier
AuctionIdPrefix(counter) == counter

\* (the append moved into the "if db_id:" branch)
Collected_Mut(cars, car, result) ==
    IF result.kind = "id" THEN Append(cars, car) ELSE cars

\* all_cars.append(car), after the try around insert_into_db
Collected(cars, car, result) == Append(cars, car)

\* one iteration of "for car in cars_on_page"
ProcessListing(outcomes) ==
    /\ pc = "listings"
    /\ cars_on_page # <<>>
    /\ \E o \in outcomes :
        /\ (o[1] /\ o[3]) => Len(Listings) < MaxRows
        /\ LET car == [Head(cars_on_page) EXCEPT
                          !.auction_id = AuctionIdPrefix(auction_counter + 1)]
               out == insert_into_db(Listings, car, o[1], o[2], o[3], o[4])
           IN  /\ processed_counter' = processed_counter + 1
               /\ auction_counter' = auction_counter + 1
               /\ insertLog' = Append(insertLog, car.link)
               /\ Listings' = out.rows
               /\ db_id' = out.result
               /\ lastAssign' = out.assign
               /\ pc' = AfterInsert(out.result)
               /\ IF pc' = "listings"
                  THEN /\ all_cars' = Collected(all_cars, car, out.result)
                       /\ cars_on_page' = Tail(cars_on_page)
                       /\ UNCHANGED ending
                  ELSE /\ ending' = "exception"
                       /\ UNCHANGED <<all_cars, cars_on_page>>
    /\ UNCHANGED <<total_pages, pages_to_check, current_page, extracted, reported,
                   summary, main, today, fetchVars, fetchLog, auxVars>>

\* (the cap forgotten)
PagesToCheck_Mut(tp) == tp

\* pages_to_check = min(total_pages, MAX_PAGES_TO_CHECK)
PagesToCheck(tp) == Min2(tp, MAX_PAGES_TO_CHECK)

\* the records of the page are done: after the first page the page loop is
\* set up, after a later page the loop goes on with the next page number
EndOfPage ==
    /\ pc = "listings"
    /\ cars_on_page = <<>>
    /\ IF current_page = 1
       THEN pages_to_check' = PagesToCheck(total_pages)
       ELSE UNCHANGED pages_to_check
    /\ current_page' = current_page + 1
    /\ pc' = "loop"
    /\ db_id' = NotCalled
    /\ lastAssign' = NoAssign
    /\ UNCHANGED <<Listings, total_pages, cars_on_page, all_cars, auction_counter,
                   processed_counter, extracted, insertLog, endVars, today,
                   fetchVars, fetchLog, auxVars>>

\* for current_page in range(2, pages_to_check + 1)
LoopHead ==
    /\ pc = "loop"
    /\ IF current_page <= pages_to_check
       THEN /\ CallGetPageHtml(current_page)
            /\ UNCHANGED ending
       ELSE /\ pc' = "report"
            /\ ending' = "exhausted"
            /\ UNCHANGED <<fetchVars, fetchLog>>
    /\ UNCHANGED <<runVars, reported, summary, main, today, storeVars, auxVars>>

\* a later page has been fetched
HandlePage ==
    /\ pc = "page"
    /\ IF html = EmptyText
       THEN /\ pc' = FetchFailedTo
            /\ current_page' = current_page + 1
            /\ UNCHANGED <<cars_on_page, extracted, ending>>
       ELSE IF html = Malformed
       THEN /\ pc' = ExceptionTo
            /\ ending' = "exception"
            /\ UNCHANGED <<cars_on_page, extracted, current_page>>
       ELSE IF extract_cars_from_html(html, today) = <<>>
       THEN /\ pc' = NoCarsTo
            /\ ending' = "break"
            /\ UNCHANGED <<cars_on_page, extracted, current_page>>
       ELSE /\ cars_on_page' = extract_cars_from_html(html, today)
            /\ extracted' = extracted \o cars_on_page'
            /\ pc' = "listings"
            /\ UNCHANGED <<current_page, ending>>
    /\ ForgetFetch
    /\ UNCHANGED <<total_pages, pages_to_check, all_cars, auction_counter,
                   processed_counter, insertLog, reported, summary, main, today,
                   storeVars, fetchLog, auxVars>>

\* main: what follows an exception that leaves run_scraper, and what follows
\* its normal return
\* (the try of main missing: the exception reaches the trigger)
UnhandledTo_Mut == "propagated"
\* except Exception as e: logging.error(...), then main returns
UnhandledTo == "caught"

\* the tallies the final results log: only processed_counter is kept and logged
FinalResults(processed) == [logged |-> TRUE, processed |-> processed]

\* the end-of-run report: the log lines, write_to_csv, the by-year summary
\* (it lies outside the try of run_scraper: an exception raised by it leaves
\* run_scraper and is handled by main)
Report ==
    /\ pc = "report"
    /\ reported' = TRUE
    /\ summary' = FinalResults(processed_counter)
    /\ \E raises \in BOOLEAN : main' = IF raises THEN UnhandledTo ELSE ReturnedTo
    /\ pc' = "done"
    /\ UNCHANGED <<ending, today, storeVars, fetchVars, runVars, fetchLog, auxVars>>

\* a step of a run, under the responses and database outcomes given
RunStep(texts, outcomes) ==
    \/ FetchFirstPage
    \/ AttemptSucceeds(texts)
    \/ AttemptFails
    \/ HandleFirstPage
    \/ ProcessListing(outcomes)
    \/ EndOfPage
    \/ LoopHead
    \/ HandlePage
    \/ Report

\* runs over sites of a few pages, every database outcome
Next ==
    \/ StartRun
    \/ NextDay
    \/ RunStep(Texts, DbOutcomes)

Spec == Init /\ [][Next]_vars

\* runs over sites of many pages
PagingNext ==
    \/ StartRun
    \/ NextDay
    \/ RunStep(PagingTexts, PagingDbOutcomes)

PagingSpec == Init /\ [][PagingNext]_vars

\* the interpreter keeps executing a run that has started
FairPagingSpec == PagingSpec /\ WF_vars(RunStep(PagingTexts, PagingDbOutcomes))

\* ------------------------------------------------------------------------
\* The fields of a record: determine_engine_capacity, the year and mileage
\* rules of extract_cars_from_html, parse_location
\* ------------------------------------------------------------------------
\* determine_engine_capacity reaches its end without a return: None
NoCapacity == -1

\* the designations of Method 1, in the order they are tested
Designations16 == {"1.6", "1,6", "e-tense", "etense", "phev", "hybrid", "plug-in", "hybryda"}
Designations20 == {"2.0", "2,0", "180", "hdi 180", "bluehdi 180"}
Designations15 == {"1.5", "1,5", "130", "hdi 130", "bluehdi 130"}

\* combined_text is given by the designations that occur in it (terms) and by
\* the figures re.findall finds in front of km/hp/ps/cv/ch (power_matches)
CombinedText(terms, power_matches) == [terms |-> terms, power_matches |-> power_matches]

determine_engine_capacity(combined_text) ==
    IF combined_text.terms \cap Designations16 # {} THEN 1598
    ELSE IF combined_text.terms \cap Designations20 # {} THEN 1997
    ELSE IF combined_text.terms \cap Designations15 # {} THEN 1499
    ELSE IF combined_text.power_matches # <<>>
    THEN LET power == combined_text.power_matches[1]
         IN  IF power >= 200 THEN 1598
             ELSE IF power >= 150 THEN 1997
             ELSE 1499
    ELSE NoCapacity

\* year: 0 when no strategy found one; the default of two years ago, then
\* "Ensure year and mileage are reasonable"
ReasonableYear(year, now_year) ==
    LET defaulted == IF year = 0 \/ year < 2000 \/ year > now_year
                     THEN now_year - 2 ELSE year
    IN  IF defaulted <= 2016 \/ defaulted > now_year THEN 2020 ELSE defaulted

\* mileage_clean: 0 when no tag or no digit was found
ReasonableMileage(mileage_clean) ==
    IF mileage_clean > 500000 \/ mileage_clean < 10 THEN 50000 ELSE mileage_clean

\* a listing of a page: the href its link resolves to (NoLink: no <a>), the
\* year and mileage digits its tags give (0: none), its title and
\* description, the digits of its price tag (0: none)
Listing(href, year, mileage, combined_text, price) ==
    [href |-> href, year |-> year, mileage |-> mileage, text |-> combined_text,
     price |-> price]

\* extract_cars_from_html with the numeric fields of each Car
RECURSIVE ExtractListings(_, _)
ExtractListings(listings, now_year) ==
    IF listings = <<>> THEN <<>>
    ELSE LET listing == Head(listings)
             accepted == ExtractFragments(<<listing.href>>, 0)
             rest == ExtractListings(Tail(listings), now_year)
         IN  IF accepted = <<>> THEN rest
             ELSE <<[link |-> accepted[1].link,
                     year |-> ReasonableYear(listing.year, now_year),
                     mileage_km |-> ReasonableMileage(listing.mileage),
                     engine_capacity |-> determine_engine_capacity(listing.text),
                     price_pln |-> listing.price]>> \o rest

ExtractCars(page, now_year) ==
    IF ~page.container THEN <<>> ELSE ExtractListings(page.listings, now_year)

\* location strings, as sequences of words and of the characters " ", ",",
\* "(" and ")"
RECURSIVE LStrip(_, _)
LStrip(s, c) == IF s # <<>> /\ Head(s) = c THEN LStrip(Tail(s), c) ELSE s
RECURSIVE RStrip(_, _)
RStrip(s, c) ==
    IF s # <<>> /\ s[Len(s)] = c THEN RStrip(SubSeq(s, 1, Len(s) - 1), c) ELSE s
\* str.strip()
Strip(s) == RStrip(LStrip(s, " "), " ")
\* the places of a character in a string
Places(s, c) == {i \in DOMAIN s : s[i] = c}
Min(S) == CHOOSE x \in S : \A y \in S : x <= y

parse_location(location_str) ==
    IF Places(location_str, "(") # {} /\ location_str # <<>>
       /\ location_str[Len(location_str)] = ")"
    THEN LET at == Min(Places(location_str, "("))
             city == SubSeq(location_str, 1, at - 1)
             voivodship == SubSeq(location_str, at + 1, Len(location_str))
         IN  <<Strip(city), Strip(RStrip(voivodship, ")"))>>
    ELSE <<Strip(location_str), <<>>>>

\* ------------------------------------------------------------------------
\* Calls of the pure functions: the arguments are drawn in FunctionInit, the
\* actions return the results
\* ------------------------------------------------------------------------
EstimatorCounts == {NoCount, 0, 20, 32, 33, 344}
EstimatorWidgets ==
    {<<FALSE, <<>>>>, <<TRUE, <<>>>>, <<TRUE, <<0>>>>, <<TRUE, <<1>>>>, <<TRUE, <<1, 2>>>>,
     <<TRUE, <<1, 2, 11>>>>, <<TRUE, <<1, BadDigit>>>>}
EstimatorPages ==
    {EmptyText, Malformed}
    \cup {Page(h1, text, w[1], w[2], TRUE, <<>>) :
             h1 \in EstimatorCounts, text \in {NoCount, 0, 20, 344}, w \in EstimatorWidgets}

YearsFound == {0, 1995, 2016, 2019, 2025, 2029}
NowYears == {2024, 2026}
MileagesFound == {0, 5, 35000, 600000}
CombinedTexts ==
    {CombinedText({}, <<>>), CombinedText({"e-tense"}, <<225>>),
     CombinedText({"2.0", "180"}, <<180>>), CombinedText({"1.5", "1.6"}, <<>>),
     CombinedText({}, <<225>>), CombinedText({}, <<160>>), CombinedText({}, <<110, 300>>)}
PricesFound == {0, 179900}
Hrefs == {NoLink, RelA, AbsB, Ds7C, Other}

PlainListing(href) == Listing(href, 2019, 35000, CombinedText({"1.6"}, <<>>), 179900)
PlainListings(hrefs) == [i \in DOMAIN hrefs |-> PlainListing(hrefs[i])]

ListingPages ==
    {[container |-> TRUE, listings |-> <<Listing(h, y, m, t, p)>>] :
        h \in Hrefs, y \in YearsFound, m \in MileagesFound, t \in CombinedTexts,
        p \in PricesFound}
    \cup {[container |-> TRUE, listings |-> PlainListings(b)] :
             b \in Bodies \cup {<<AbsA, Ds7C, AbsB>>, <<RelA, NoLink, AbsB>>}}
    \cup {[container |-> FALSE, listings |-> PlainListings(<<AbsA>>)]}

Locations ==
    {<<>>, <<"Zator">>, <<" ", "Zator", " ">>,
     <<"Wroclaw", " ", "(", "Dolnoslaskie", ")">>,
     <<"Wroclaw", "(", " ", "Dolnoslaskie", " ", ")">>,
     <<"Zator", ",", " ", "oswiecimski", ",", " ", "Malopolskie">>,
     <<"Zator", ",", " ", "Malopolskie">>,
     <<"Zator", ",", " ", "Malopolskie", " ", "(", "Polska", ")">>,
     <<"(", "Dolnoslaskie", ")", " ", "Wroclaw">>,
     <<"Nowy", " ", "Targ", " ", "(", "Malopolskie", ")">>}

EstimateRequests ==
    {[fn |-> "get_total_auction_count_and_pages", arg |-> h, returned |-> FALSE] :
        h \in EstimatorPages}
ExtractRequests ==
    {[fn |-> "extract_cars_from_html", arg |-> page, now_year |-> y,
      returned |-> FALSE] : page \in ListingPages, y \in NowYears}
LocationRequests ==
    {[fn |-> "parse_location", arg |-> s, returned |-> FALSE] : s \in Locations}

FunctionInit ==
    /\ RunInit
    /\ proc = NoProcs
    /\ \/ call \in EstimateRequests
       \/ call \in ExtractRequests
       \/ call \in LocationRequests

Pending(fn) == call.fn = fn /\ ~call.returned

ReturnEstimate ==
    /\ Pending("get_total_auction_count_and_pages")
    /\ call' = [fn |-> call.fn, arg |-> call.arg, returned |-> TRUE,
                result |-> get_total_auction_count_and_pages(call.arg)]
    /\ UNCHANGED <<today, pc, storeVars, fetchVars, runVars, endVars, fetchLog, proc>>

ReturnCars ==
    /\ Pending("extract_cars_from_html")
    /\ call' = [fn |-> call.fn, arg |-> call.arg, now_year |-> call.now_year,
                returned |-> TRUE, result |-> ExtractCars(call.arg, call.now_year)]
    /\ UNCHANGED <<today, pc, storeVars, fetchVars, runVars, endVars, fetchLog, proc>>

ReturnLocation ==
    /\ Pending("parse_location")
    /\ call' = [fn |-> call.fn, arg |-> call.arg, returned |-> TRUE,
                result |-> parse_location(call.arg)]
    /\ UNCHANGED <<today, pc, storeVars, fetchVars, runVars, endVars, fetchLog, proc>>

FunctionNext ==
    \/ ReturnEstimate
    \/ ReturnCars
    \/ ReturnLocation

FunctionSpec == FunctionInit /\ [][FunctionNext]_vars

\* ------------------------------------------------------------------------
\* insert_into_db statement by statement, for runs that overlap (two
\* invocations of the function at once, sharing the Listings table)
\* ------------------------------------------------------------------------
Runs == {1, 2}
OverlapLinks == {AbsA, AbsB}

\* how often each call to the database was made in this insert_into_db
NoAttempts == [connect |-> 0, lookup |-> 0, insert |-> 0]

\* a run that is not inside insert_into_db
ProcIdle ==
    [pc |-> "idle", link |-> NoLink, assign |-> NoAssign, result |-> NotCalled,
     attempts |-> NoAttempts, failed |-> {}]

\* a call of the database failed: it is logged and the fallback is taken
Failed(run, op) == [run EXCEPT !.failed = @ \cup {op}]
Attempted(run, op) == [run EXCEPT !.attempts[op] = @ + 1]

\* return 1000000  (get_auction_number could not connect, or a query raised)
FallBack(run) ==
    [Failed(run, "lookup") EXCEPT
        !.assign = get_auction_number(<<>>, compute_auction_key(run.link), FALSE),
        !.pc = "insert"]

\* (the number is derived again inside the INSERT statement)
InsertedNumber_Mut(rows, assign) ==
    IF assign.rule = "new" THEN NewAuctionNumber(MaxAuctionNumber(rows))
    ELSE assign.number

\* params = (car.link, auction_key, auction_number, ...): the number
\* get_auction_number returned, whatever the table holds by now
InsertedNumber(rows, assign) == assign.number

\* insert_into_db(car) is entered: connection = get_sql_connection()
OpenConnection(p) ==
    /\ proc[p].pc = "idle"
    /\ \E link \in OverlapLinks, ok \in BOOLEAN :
        LET entered == Attempted([ProcIdle EXCEPT !.link = link], "connect")
        IN  proc' = [proc EXCEPT ![p] =
                IF ok THEN [entered EXCEPT !.pc = "get_auction_number"]
                ELSE [Failed(entered, "connect") EXCEPT !.result = None]]
    /\ UNCHANGED <<Listings, today, pc, db_id, lastAssign, fetchVars, runVars,
                   endVars, fetchLog, call>>

\* get_auction_number: connection = get_sql_connection()
LookupConnect(p) ==
    /\ proc[p].pc = "get_auction_number"
    /\ \E ok \in BOOLEAN :
        LET tried == Attempted(proc[p], "lookup")
        IN  proc' = [proc EXCEPT ![p] =
                IF ok THEN [tried EXCEPT !.pc = "select_key"] ELSE FallBack(tried)]
    /\ UNCHANGED <<Listings, today, pc, db_id, lastAssign, fetchVars, runVars,
                   endVars, fetchLog, call>>

\* get_auction_number: SELECT TOP 1 AuctionNumber ... WHERE AuctionKey = %s
SelectKey(p) ==
    /\ proc[p].pc = "select_key"
    /\ \E ok \in BOOLEAN :
        LET key == compute_auction_key(proc[p].link)
        IN  proc' = [proc EXCEPT ![p] =
                IF ~ok THEN FallBack(proc[p])
                ELSE IF RowsWithKey(Listings, key) # {}
                THEN [proc[p] EXCEPT !.assign = get_auction_number(Listings, key, TRUE),
                                     !.pc = "insert"]
                ELSE [proc[p] EXCEPT !.pc = "select_max"]]
    /\ UNCHANGED <<Listings, today, pc, db_id, lastAssign, fetchVars, runVars,
                   endVars, fetchLog, call>>

\* get_auction_number: SELECT ISNULL(MAX(AuctionNumber), 0), then + 1
SelectMax(p) ==
    /\ proc[p].pc = "select_max"
    /\ \E ok \in BOOLEAN :
        proc' = [proc EXCEPT ![p] =
            IF ~ok THEN FallBack(proc[p])
            ELSE [proc[p] EXCEPT
                    !.assign = [number |-> NewAuctionNumber(MaxAuctionNumber(Listings)),
                                rule |-> "new",
                                key |-> compute_auction_key(proc[p].link)],
                    !.pc = "insert"]]
    /\ UNCHANGED <<Listings, today, pc, db_id, lastAssign, fetchVars, runVars,
                   endVars, fetchLog, call>>

\* insert_into_db: cursor.execute(insert_query, params), fetchone, commit;
\* on an exception rollback and return None
ExecuteInsert(p) ==
    /\ proc[p].pc = "insert"
    /\ \E ok \in BOOLEAN :
        /\ ok => Len(Listings) < MaxRows
        /\ LET tried == Attempted(proc[p], "insert")
               car == [link |-> proc[p].link, scrape_date |-> today]
           IN  IF ok
               THEN /\ Listings' = Append(Listings,
                            ListingRow(car, InsertedNumber(Listings, proc[p].assign)))
                    /\ proc' = [proc EXCEPT ![p] =
                            [tried EXCEPT !.result = ListingId(Len(Listings) + 1),
                                          !.pc = "idle"]]
               ELSE /\ Listings' = Listings
                    /\ proc' = [proc EXCEPT ![p] =
                            [Failed(tried, "insert") EXCEPT !.result = None,
                                                            !.pc = "idle"]]
    /\ UNCHANGED <<today, pc, db_id, lastAssign, fetchVars, runVars, endVars,
                   fetchLog, call>>

OverlapInit ==
    /\ RunInit
    /\ call = NoCall
    /\ proc = [p \in Runs |-> ProcIdle]

OverlapNext ==
    \E p \in Runs :
        \/ OpenConnection(p)
        \/ LookupConnect(p)
        \/ SelectKey(p)
        \/ SelectMax(p)
        \/ ExecuteInsert(p)

OverlapSpec == OverlapInit /\ [][OverlapNext]_vars

\* ------------------------------------------------------------------------
\* Properties of the store (checked under Spec)
\* ------------------------------------------------------------------------
KeysIn(rows) == {rows[i].AuctionKey : i \in DOMAIN rows}
NumbersIn(rows) == {rows[i].AuctionNumber : i \in DOMAIN rows}

\* this step is one insert_into_db call
InsertStep == insertLog' # insertLog

\* C1: same-day idempotency -- the store holds at most one row per
\* (auction_number, calendar day); a same-day re-observation of a number
\* inserts no row.
C1_SameDayIdempotent ==
    \A i, j \in DOMAIN Listings :
        (/\ Listings[i].AuctionNumber = Listings[j].AuctionNumber
         /\ Listings[i].ScrapeDate = Listings[j].ScrapeDate) => i = j

\* C2: stability -- all persisted rows that share an auction_key carry the
\* same auction_number, also after observations whose lookup failed.
C2_StableNumber ==
    \A i, j \in DOMAIN Listings :
        Listings[i].AuctionKey = Listings[j].AuctionKey
            => Listings[i].AuctionNumber = Listings[j].AuctionNumber

\* C3 as stated: when the store is reachable (both connections open, the
\* lookup answered) and holds rows for N keys with real sequence numbers, an
\* unseen key gets N + 1; and of two successive new keys the second gets a
\* greater number than the first (no number is assigned to two keys).
C3_Original ==
    [][(InsertStep /\ lastAssign'.rule = "new") =>
          /\ (\A n \in NumbersIn(Listings) : n < DEFAULT_AUCTION_NUMBER)
                => lastAssign'.number = Cardinality(KeysIn(Listings)) + 1
          /\ (/\ lastAssign.rule = "new" /\ lastAssign.key # lastAssign'.key
              /\ db_id.kind # "raised" /\ db_id'.kind # "raised")
                => lastAssign'.number > lastAssign.number]_vars

\* C3 as amended: when the store is reachable and holds rows for N keys with
\* real sequence numbers, an unseen key gets N + 1 (1 on an empty store);
\* the number an unseen key gets is greater than every persisted number, so
\* persisted numbers of successive new keys increase strictly and a persisted
\* number is never given to another key by the max+1 rule.  (A number given
\* to a key whose insert failed was not persisted and is given again.)
C3_Sequential ==
    [][(InsertStep /\ lastAssign'.rule = "new") =>
          /\ (\A n \in NumbersIn(Listings) : n < DEFAULT_AUCTION_NUMBER)
                => lastAssign'.number = Cardinality(KeysIn(Listings)) + 1
          /\ \A n \in NumbersIn(Listings) : n < lastAssign'.number
          /\ lastAssign'.key \notin KeysIn(Listings)]_vars

\* a second key was reconciled on a store holding one key, got 2, was persisted
C3_Witness ==
    /\ lastAssign.rule = "new"
    /\ lastAssign.number = 2
    /\ db_id.kind = "id"
    /\ Len(Listings) = 2
    /\ Listings[1].AuctionNumber = 1

\* C4: numbers are bound 1:1 to keys -- no two persisted rows with different
\* auction_key carry the same auction_number, whichever persistence steps
\* failed.
C4_OneToOne ==
    \A i, j \in DOMAIN Listings :
        Listings[i].AuctionNumber = Listings[j].AuctionNumber
            => Listings[i].AuctionKey = Listings[j].AuctionKey

\* C5: reserved sentinel -- a failed lookup gives DEFAULT_AUCTION_NUMBER, and
\* no number the max+1 rule produces equals the sentinel or is derived from it
\* (every such number lies below the sentinel).
C5_SentinelReserved ==
    /\ lastAssign.rule = "default" => lastAssign.number = 1000000
    /\ lastAssign.rule = "new" => lastAssign.number < 1000000

\* ------------------------------------------------------------------------
\* Properties of run_scraper and get_page_html
\* ------------------------------------------------------------------------
LinksOf(cars) == [i \in DOMAIN cars |-> cars[i].link]
Increasing(log) == \A i, j \in DOMAIN log : i < j => log[i] < log[j]
InListingLoop == pc = "listings"

\* C6: no listing failure aborts the run -- every record extracted from a
\* processed page gets exactly one insert_into_db call, in order, whatever the
\* earlier calls returned or raised; right after a call that returned None or
\* raised, the run is still in the listing loop, and it leaves that loop only
\* with every record of the page attempted.
C6_NoListingAborts ==
    /\ insertLog \o LinksOf(cars_on_page) = LinksOf(extracted)
    /\ ~InListingLoop => cars_on_page = <<>>
    /\ db_id.kind \in {"None", "raised"} => (InListingLoop /\ ending = "none")
    /\ Len(all_cars) = Len(insertLog)

\* two inserts failed in a row (nothing was persisted) and the run is on its
\* second page, still going
C6_Witness ==
    /\ InListingLoop
    /\ current_page = 2
    /\ Len(insertLog) = 2
    /\ Listings = <<>>
    /\ db_id.kind = "raised"

\* C7 as stated: a failure on a page after the first (empty fetch, or no
\* container / no listings) skips only that page -- a run that got past its
\* first page has, at its end, fetched every page from 2 to pages_to_check.
C7_Original ==
    (pc = "done" /\ ending \in {"exhausted", "break"})
        => \A p \in 2..pages_to_check : p \in Range(fetchLog)

\* C7 as amended: an empty fetch of a page after the first skips only that
\* page (the loop goes on with the next page number, which is fetched while
\* it is within pages_to_check); a fetched page after the first that yields
\* no record ends the page loop, so no later page is fetched; a run whose page
\* loop was not ended this way (or by an exception) has fetched every page
\* from 2 to pages_to_check.
C7_SkipOrStop ==
    [][/\ (pc = "page" /\ html = EmptyText)
            => (pc' = "loop" /\ current_page' = current_page + 1 /\ ending' = "none")
       /\ (pc = "loop" /\ current_page <= pages_to_check)
            => (pc' = "get_page_html" /\ fetchLog' = Append(fetchLog, current_page))
       /\ (pc = "page" /\ html.type = "page" /\ CarsIn(html) = <<>>)
            => (pc' = "report" /\ ending' = "break" /\ fetchLog' = fetchLog)
       /\ (pc' = "done" /\ ending' = "exhausted")
            => \A p \in 2..pages_to_check' : p \in Range(fetchLog')
       /\ (pc' = "done" /\ ending' = "break")
            => fetchLog'[Len(fetchLog')] = current_page']_vars

\* the fetch of page 2 came back empty, page 3 is being fetched
C7_Witness ==
    /\ pc = "get_page_html"
    /\ fetchLog = <<1, 2, 3>>
    /\ extracted = <<>>
    /\ all_cars = <<>>

\* C8 as stated: a failure on the very first page (empty fetch, or no
\* container / no listings in its HTML) aborts the run -- no further page is
\* fetched and no listing is persisted.
C8_Original ==
    /\ ending = "return" => (fetchLog = <<1>> /\ insertLog = <<>>)
    /\ (pc = "get_page_html" /\ fetchLog = <<1, 2>>) => extracted # <<>>

\* C8 as amended: an empty fetch of the very first page aborts the run (no
\* further page is fetched, no insert is attempted, no report is written); a
\* first page that was fetched but yields no record does not abort it: nothing
\* of page 1 is persisted and the run goes on with page 2 whenever the
\* estimate gives at least 2 pages.
C8_FirstPage ==
    [][/\ (pc = "first_page" /\ html = EmptyText)
            => (pc' = "done" /\ ending' = "return" /\ ~reported')
       /\ ending' = "return" => (fetchLog' = <<1>> /\ insertLog' = <<>>)
       /\ (pc = "first_page" /\ html.type = "page" /\ CarsIn(html) = <<>>)
            => (pc' = "listings" /\ cars_on_page' = <<>> /\ ending' = "none"
                /\ insertLog' = <<>>)
       /\ (pc = "listings" /\ current_page = 1 /\ cars_on_page = <<>>
           /\ total_pages >= 2)
            => (pc' = "loop" /\ current_page' = 2 /\ pages_to_check' >= 2)]_vars

\* the first page gave no record and page 2 is being fetched
C8_Witness ==
    /\ pc = "get_page_html"
    /\ fetchLog = <<1, 2>>
    /\ extracted = <<>>

\* C9 as stated: each page number is fetched at most once, in increasing
\* order, none above 30, and a run that has ended has written its report.
C9_Original ==
    /\ Increasing(fetchLog)
    /\ \A i \in DOMAIN fetchLog : fetchLog[i] <= 30
    /\ pc = "done" => reported

\* C9 as amended: each page number is fetched at most once, in increasing
\* order, none above 30; every run that starts ends; it ends with its report
\* written unless the fetch of the first page came back empty, in which case
\* run_scraper returns without a report.
C9_Termination ==
    /\ [](Increasing(fetchLog) /\ \A i \in DOMAIN fetchLog : fetchLog[i] <= 30)
    /\ [](pc = "done" => (reported <=> ending # "return"))
    /\ (pc = "call_first") ~> (pc = "done")

\* a run walked all 30 pages and reported
C9_Witness ==
    /\ pc = "done"
    /\ reported
    /\ Len(fetchLog) = 30
    /\ fetchLog[30] = 30

\* C10: get_page_html makes at most 3 requests for one URL; the first
\* response that succeeds is returned at once (no further request); after a
\* failed attempt that is not the last it sleeps the same 2 seconds; after the
\* third failed attempt it returns "" and nothing is raised.
C10_FetchRetry ==
    LET failures == requests - Len(served)
        returned == pc \in {"first_page", "page"}
    IN  /\ requests <= 3
        /\ Len(served) <= 1
        /\ served # <<>> => (returned /\ html = served[1] /\ failures = attempt)
        /\ \A i \in DOMAIN sleeps : sleeps[i] = 2
        /\ Len(sleeps) = Min2(failures, 2)
        /\ (returned /\ served = <<>>) => (requests = 3 /\ html = EmptyText)
        /\ returned => ending = "none"
        /\ (pc = "get_page_html") => requests = attempt

\* the third attempt succeeded after two failures and two sleeps
C10_Witness ==
    /\ pc = "page"
    /\ served # <<>>
    /\ html.type = "page"
    /\ requests = 3
    /\ sleeps = <<2, 2>>

\* ------------------------------------------------------------------------
\* Properties of main and of the end-of-run report
\* ------------------------------------------------------------------------
\* C11: run-level containment -- whatever exception is raised inside a run
\* (an exception of the page loop is handled by run_scraper itself, which goes
\* on to its report; one raised by the report leaves run_scraper), main
\* returns normally: a run that has ended left main either completed or with
\* the exception caught, never propagated to the trigger.
C11_RunLevelContainment ==
    /\ main \in {"idle", "running", "completed", "caught"}
    /\ pc = "done" => main \in {"completed", "caught"}
    /\ pc \notin {"idle", "done"} => main = "running"
    /\ ending = "exception" => pc \in {"report", "done"}
    /\ (pc = "done" /\ ending # "return") => reported

\* an exception ended the page loop, the report raised as well, main caught it
C11_Witness ==
    /\ pc = "done"
    /\ ending = "exception"
    /\ main = "caught"
    /\ all_cars # <<>>

\* C18: end-of-run summary -- a run that has reported logged four tallies
\* (processed, newly inserted, duplicate, failed), and processed equals
\* inserted + duplicate + failed.
C18_SummaryTallies ==
    reported =>
        /\ {"processed", "inserted", "duplicate", "failed"} \subseteq DOMAIN summary
        /\ summary.processed = summary.inserted + summary.duplicate + summary.failed

\* ------------------------------------------------------------------------
\* Properties of the pure functions (checked under FunctionSpec)
\* ------------------------------------------------------------------------
Returned(fn) == call.fn = fn /\ call.returned

\* C12: for every input page, also one whose pagination widget shows only the
\* page number 0 and one without any signal, get_total_auction_count_and_pages
\* returns total_pages >= 1.
C12_AtLeastOnePage ==
    Returned("get_total_auction_count_and_pages") => call.result[2] >= 1

\* the N of the explicit counter text (the h1 first), NoCount when absent
CounterShown(h) == IF h.h1 # NoCount THEN h.h1 ELSE h.text
\* a pagination widget with page numbers is present
WidgetShown(h) == h.ul /\ h.li # <<>>

\* C13: pagination signals -- for every N >= 0 the counter text shows the
\* estimator returns total_count = N; without a pagination widget total_pages
\* is the ceiling of N/32, at least 1; with only the widget, maximum P > 1,
\* total_count = 32 * P; with neither signal the pair is (320, 10).
C13_PaginationSignals ==
    (/\ Returned("get_total_auction_count_and_pages")
     /\ call.arg.type = "page"
     /\ BadDigit \notin Range(call.arg.li)) =>
        LET h == call.arg
            N == CounterShown(h)
        IN  /\ N # NoCount => call.result[1] = N
            /\ (N # NoCount /\ ~WidgetShown(h))
                  => call.result[2] = Max({1, CeilDiv(N, EXPECTED_PER_PAGE)})
            /\ (N = NoCount /\ WidgetShown(h) /\ Max(Range(h.li)) > 1)
                  => call.result[1] = EXPECTED_PER_PAGE * Max(Range(h.li))
            /\ (N = NoCount /\ ~WidgetShown(h)) => call.result = <<320, 10>>

\* C14: every record extract_cars_from_html returns has year, mileage_km,
\* engine_capacity and price_pln set to a non-negative integer, none of them
\* absent (None) -- engine_capacity included when the title and description
\* hold neither a designation nor a power figure.
C14_NumericFields ==
    Returned("extract_cars_from_html") =>
        \A i \in DOMAIN call.result :
            /\ call.result[i].year >= 0
            /\ call.result[i].mileage_km >= 0
            /\ call.result[i].engine_capacity >= 0
            /\ call.result[i].price_pln >= 0

\* the listings of a page whose link resolves and, normalized, begins with
\* REQUIRED_PREFIX
InScope(listings) ==
    {i \in DOMAIN listings :
        /\ listings[i].href # NoLink
        /\ StartsWithRequiredPrefix(basic_url_cleanup(listings[i].href))}

\* C15: product filter -- a listing yields a record if and only if its link
\* resolves and the normalized link begins with REQUIRED_PREFIX: a page
\* yields as many records as it has such listings (2 for 3 listings of which
\* one is out of scope), and every record's link begins with REQUIRED_PREFIX.
C15_ProductFilter ==
    (Returned("extract_cars_from_html") /\ call.arg.container) =>
        /\ Len(call.result) = Cardinality(InScope(call.arg.listings))
        /\ \A i \in DOMAIN call.result : StartsWithRequiredPrefix(call.result[i].link)

\* C16: unknown sentinel on an extraction miss -- a listing for which no
\* plausible model year was found (none, or one outside [2000, current year])
\* still yields its record, with year 0; a listing without mileage yields
\* mileage_km 0, not an invented value.
C16_UnknownSentinel ==
    (/\ Returned("extract_cars_from_html")
     /\ call.arg.container
     /\ Len(call.arg.listings) = 1
     /\ AcceptsLink(basic_url_cleanup(call.arg.listings[1].href))) =>
        LET listing == call.arg.listings[1]
        IN  /\ Len(call.result) = 1
            /\ (listing.year = 0 \/ listing.year < 2000 \/ listing.year > call.now_year)
                  => call.result[1].year = 0
            /\ listing.mileage = 0 => call.result[1].mileage_km = 0

\* split_location as the claim states it: a trailing parenthesized region
\* first, then the first and last comma-separated segments, else the text
SplitLocationAsStated(text) ==
    IF text # <<>> /\ text[Len(text)] = ")" /\ Places(text, "(") # {}
    THEN <<Strip(SubSeq(text, 1, Min(Places(text, "(")) - 1)),
           Strip(SubSeq(text, Min(Places(text, "(")) + 1, Len(text) - 1))>>
    ELSE IF Places(text, ",") # {}
    THEN <<Strip(SubSeq(text, 1, Min(Places(text, ",")) - 1)),
           Strip(SubSeq(text, Max(Places(text, ",")) + 1, Len(text)))>>
    ELSE <<Strip(text), <<>>>>

\* C17: split_location tie-break -- for text ending in a parenthesized region
\* city is the part before the parenthesis and region the part inside it;
\* otherwise, with comma-separated segments, city is the first segment and
\* region the last ("Zator, oswiecimski, Malopolskie" gives Zator and
\* Malopolskie); any other text gives (stripped text, "").
C17_SplitLocation ==
    Returned("parse_location") => call.result = SplitLocationAsStated(call.arg)

\* ------------------------------------------------------------------------
\* Properties of insert_into_db under overlap (checked under OverlapSpec)
\* ------------------------------------------------------------------------
\* C19: persistence retry -- a call to the database that fails (the
\* connection cannot be opened, the lookup or the insert raises) is retried
\* before the fallback is taken: a call that ended in its fallback was
\* attempted at least twice.
C19_PersistenceRetry ==
    \A p \in Runs : \A op \in proc[p].failed : proc[p].attempts[op] >= 2

\* C20: unprotected read-max-then-insert -- nothing prevents or detects the
\* race: an INSERT that goes through persists exactly the key and the number
\* its run read before, whatever the table holds by then (also when another
\* run has persisted that number in between), and returns a row identifier;
\* so two overlapping runs that read the same MAX persist one number under
\* two keys (the witness).
C20_UnprotectedReadMax ==
    [][\A p \in Runs :
          (proc[p].pc = "insert" /\ proc'[p].pc = "idle" /\ Listings' # Listings) =>
              /\ Listings' = Append(Listings,
                                    [AuctionKey |-> proc[p].assign.key,
                                     AuctionNumber |-> proc[p].assign.number,
                                     ScrapeDate |-> today])
              /\ proc'[p].result = ListingId(Len(Listings'))
              /\ proc'[p].failed = proc[p].failed]_vars

\* both runs read the same MAX for different keys before either inserted,
\* and both rows were persisted with that number
C20_Witness ==
    /\ Len(Listings) = 2
    /\ Listings[1].AuctionKey # Listings[2].AuctionKey
    /\ Listings[1].AuctionNumber = Listings[2].AuctionNumber
    /\ Listings[1].AuctionNumber < DEFAULT_AUCTION_NUMBER
    /\ \A p \in Runs : /\ proc[p].assign.rule = "new"
                        /\ proc[p].result.kind = "id"
                        /\ proc[p].failed = {}

\* ------------------------------------------------------------------------
\* Properties of the counters and of the report list (checked under Spec)
\* ------------------------------------------------------------------------
\* C21: per-run positional counter -- between two listings auction_counter =
\* processed_counter = the number of records in all_cars; each listing
\* raises the counters by exactly 1 and nothing else changes them within a
\* run; the positional prefixes of the auction_id values in all_cars are
\* 1, 2, ..., n in list order, without gap or repeat across pages.
C21_PositionalCounter ==
    /\ [](/\ auction_counter = processed_counter
          /\ processed_counter = Len(all_cars)
          /\ \A i \in DOMAIN all_cars : all_cars[i].auction_id = i)
    /\ [][IF InListingLoop /\ InsertStep
          THEN /\ auction_counter' = auction_counter + 1
               /\ processed_counter' = processed_counter + 1
          ELSE pc' # "call_first" =>
                   /\ auction_counter' = auction_counter
                   /\ processed_counter' = processed_counter]_vars

\* the second listing of the run is on the second page: it got position 2
C21_Witness ==
    /\ current_page = 2
    /\ pc = "listings"
    /\ auction_counter = 2
    /\ Len(all_cars) = 2
    /\ all_cars[2].auction_id = 2
    /\ cars_on_page = <<>>

\* the record extract_cars_from_html returned, as it stands in all_cars at
\* position i
Positioned(car, i) == [car EXCEPT !.auction_id = i]

\* C22: the report list does not depend on persistence outcomes -- every
\* record extracted from a processed page is appended to all_cars exactly
\* once, in page order then document order, whether its insert returned a
\* row identifier, returned None or raised; no step of a run removes or
\* reorders a record of all_cars, and the list at the report is the list of
\* the records extracted.
C22_ReportIndependent ==
    /\ [](/\ Len(all_cars) + Len(cars_on_page) = Len(extracted)
          /\ \A i \in DOMAIN all_cars : all_cars[i] = Positioned(extracted[i], i)
          /\ pc \in {"report", "done"} => Len(all_cars) = Len(extracted))
    /\ [][IF InListingLoop /\ InsertStep
          THEN /\ Len(all_cars') = Len(all_cars) + 1
               /\ SubSeq(all_cars', 1, Len(all_cars)) = all_cars
               /\ all_cars'[Len(all_cars')].link = Head(cars_on_page).link
               /\ db_id'.kind \in {"id", "None", "raised"}
          ELSE pc' # "call_first" => all_cars' = all_cars]_vars

\* the run reported two records, of which only one was persisted
C22_Witness ==
    /\ pc = "done"
    /\ reported
    /\ Len(all_cars) = 2
    /\ Len(Listings) = 1
    /\ summary.processed = 2
    /\ today = 1

====
